---- MODULE Spec2Model ----
(***************************************************************************)
(* Model of two ibis adapter layers:                                       *)
(*   - the PySpark client and its table handle                             *)
(*       (ibis/backends/pyspark/client.py), and                            *)
(*   - the file-backend namespace walker                                   *)
(*       (ibis/backends/base/file/__init__.py).                            *)
(*                                                                         *)
(* Python strings that are parsed, formatted or pattern-matched are        *)
(* sequences of one-character strings, so that qualifying, parsing and     *)
(* matching are computed and not assumed.  Python's None is NoneV.         *)
(* Every operation is one action: it records the call in op, the native    *)
(* and collaborator calls it issued (in order) in calls, and what it       *)
(* returned or raised in ret.                                              *)
(***************************************************************************)
EXTENDS Integers, Sequences, FiniteSets, TLC

VARIABLES
    h,      \* table-handle spec: the handle most recently obtained
    old,    \* table-handle spec: the handle h was renamed from (stale), or NoHandle
    was,    \* history: the qualified name old had when rename was called on it
    cat,    \* catalog spec: the engine's catalog (databases, tables, current database)
    fs,     \* file spec: the directory tree under the client's root
    policy, \* file spec: the listing policy of the concrete file backend
    op,     \* the last operation called and its arguments
    calls,  \* native-engine / collaborator calls issued by the last operation, in order
    ret     \* what the last operation returned or raised

vars == <<h, old, was, cat, fs, policy, op, calls, ret>>

-----------------------------------------------------------------------------
(* Values *)

\* Python None.  Names are sequences of one-character strings, so this
\* one-element sequence is different from every name.
NoneV == <<"None">>

Range(s) == {s[i] : i \in 1..Len(s)}

\* raise exc(msg)
Raise(exc, msg) == [kind |-> "raise", exc |-> exc, msg |-> msg]

\* return value
Return(v) == [kind |-> "return", value |-> v]

Raised(r) == r.kind = "raise"

\* Python truthiness of an optional string: None and "" are falsy.
Truthy(s) == s # NoneV /\ s # <<>>

\* Python's  a or b  on optional strings.
OrElse(a, b) == IF Truthy(a) THEN a ELSE b

-----------------------------------------------------------------------------
\* Qualified names.  ibis.backends.base.sql.ddl.fully_qualified_re is the
\* pattern  <g1> \. (?: BQ <g2> BQ | <g3> )  with BQ the backquote and each
\* group "any characters, greedy".  The last alternative matches any rest, so group 1 is everything
\* before the LAST dot; group 2 is taken when a backtick follows that dot and
\* another one comes later, and then runs to the last backtick.

\* The backquote character (written with a stand-in: the lexer of the tools
\* does not take a backquote inside a string).
BQ == "^"

Dots(s) == {i \in 1..Len(s) : s[i] = "."}

Max(S) == CHOOSE m \in S : \A k \in S : k <= m

\* is_fully_qualified(x) == bool(fully_qualified_re.search(x))
is_fully_qualified(x) == Dots(x) # {}

\* The line break, which "." of a regular expression does not match
NL == "\n"

\* The part of s before its first line break
FirstLine(s) ==
    LET breaks == {i \in 1..Len(s) : s[i] = NL}
    IN  IF breaks = {} THEN s
        ELSE SubSeq(s, 1, (CHOOSE i \in breaks : \A k \in breaks : i <= k) - 1)

\* fully_qualified_re.match(s).groups(), or NoneV when there is no match:
\* the match starts at the start of s and stays within its first line
fully_qualified_groups(s) ==
    IF Dots(FirstLine(s)) = {} THEN NoneV
    ELSE LET line  == FirstLine(s)
             d     == Max(Dots(line))
             db    == SubSeq(line, 1, d - 1)
             rest  == SubSeq(line, d + 1, Len(line))
             ticks == {j \in 2..Len(rest) : rest[j] = BQ}
         IN  IF Len(rest) >= 2 /\ rest[1] = BQ /\ ticks # {}
             THEN <<db, SubSeq(rest, 2, Max(ticks) - 1), NoneV>>
             ELSE <<db, NoneV, rest>>

\* _fully_qualified_name putting the database in front of every name, a
\* qualified one included: the mutant of a plausible bug.
_fully_qualified_name_always(name, database) ==
    IF Truthy(database) THEN database \o <<".", BQ>> \o name \o <<BQ>>
    ELSE name

\* PySparkClient._fully_qualified_name(name, database)
_fully_qualified_name(name, database) ==
    IF is_fully_qualified(name) THEN name
    ELSE IF Truthy(database) THEN database \o <<".", BQ>> \o name \o <<BQ>>
    ELSE name

\* PySparkTable._match_name(): <<database, table>> of a qualified name
_match_name(qualified_name) ==
    LET m == fully_qualified_groups(qualified_name)
    IN  IF m = NoneV THEN <<NoneV, qualified_name>>
        ELSE <<m[1], OrElse(m[2], m[3])>>

\* PySparkTable._database
_database(self) == _match_name(self.qname)[1]

\* PySparkTable._unqualified_name
_unqualified_name(self) == _match_name(self.qname)[2]

-----------------------------------------------------------------------------
(* Schemas: a schema is a sequence of columns [name, type], names distinct *)

Col(n, t) == [name |-> n, type |-> t]

names(schema) == [i \in 1..Len(schema) |-> schema[i].name]

types(schema) == [i \in 1..Len(schema) |-> schema[i].type]

\* schema[name]
TypeOf(schema, name) ==
    schema[CHOOSE i \in 1..Len(schema) : schema[i].name = name].type

Types == {"int32", "int64", "string"}

\* lt.castable(rt) (ibis.expr.datatypes): a type casts safely to itself, and
\* an integer to an integer at least as wide; nothing else among Types.
castable(lt, rt) ==
    \/ lt = rt
    \/ lt = "int32" /\ rt = "int64"

\* Schema.equals(other): same names and same types, in the same order
equals(s1, s2) == names(s1) = names(s2) /\ types(s1) = types(s2)

\* The first index i of from_schema, in iteration order, whose column does
\* not cast to the same-named column of to_schema; 0 when there is none.
FirstUncastable(from_schema, to_schema) ==
    LET bad == {i \in 1..Len(from_schema) :
                  ~castable(from_schema[i].type,
                            TypeOf(to_schema, from_schema[i].name))}
    IN  IF bad = {} THEN 0 ELSE CHOOSE i \in bad : \A j \in bad : i <= j

\* PySparkTable._validate_compatible(from_schema, to_schema) with the first
\* check (the name sets) left out: the mutant of a plausible bug.
_validate_compatible_no_names(from_schema, to_schema) ==
    IF \E n \in Range(names(from_schema)) : n \notin Range(names(to_schema))
    THEN Return(NoneV)
    ELSE LET i == FirstUncastable(from_schema, to_schema)
         IN  IF i = 0 THEN Return(NoneV)
             ELSE Raise("IbisInputError",
                        <<"Cannot safely cast ", from_schema[i].type, " to ",
                          TypeOf(to_schema, from_schema[i].name)>>)

\* PySparkTable._validate_compatible(from_schema, to_schema)
_validate_compatible(from_schema, to_schema) ==
    IF Range(names(from_schema)) # Range(names(to_schema))
    THEN Raise("IbisInputError", <<"Schemas have different names">>)
    ELSE LET i == FirstUncastable(from_schema, to_schema)
         IN  IF i = 0 THEN Return(NoneV)
             ELSE Raise("IbisInputError",
                        <<"Cannot safely cast ", from_schema[i].type, " to ",
                          TypeOf(to_schema, from_schema[i].name)>>)

-----------------------------------------------------------------------------
(* Inputs of the table-handle operations *)

A == "a"
B == "b"

\* Schemas of existing tables (the destination of an insert)
TableSchemas ==
    { <<Col(A, "int64"), Col(B, "string")>>,
      <<Col(A, "string"), Col(B, "string")>>,
      <<Col(A, "int32"), Col(B, "int32")>>,
      <<Col(A, "int32")>> }

\* Schemas of inserted objects: every schema over columns a, b with one or
\* two columns, in either column order
ExprSchemas ==
    {<<Col(A, t)>> : t \in Types}
    \cup {<<Col(A, t), Col(B, u)>> : t \in Types, u \in Types}
    \cup {<<Col(B, t), Col(A, u)>> : t \in Types, u \in Types}

\* What insert / create_table accept as obj
DataFrames == {[kind |-> "DataFrame", schema |-> s] :
                 s \in {<<Col(A, "int32"), Col(B, "string")>>, <<Col(B, "string")>>}}

TableExprs == {[kind |-> "TableExpr", schema |-> s] : s \in ExprSchemas}

\* Concrete handle types: PySparkTable and a subclass of it
HandleTypes == {"PySparkTable", "PySparkTableSubclass"}

\* Table and database names known to the catalog
T == <<"t">>
D == <<"d">>

\* The handle PySparkClient.table builds: table_expr_class(table_class(
\* qualified_name, schema, client))
Handle(cls, qname, schema) == [cls |-> cls, qname |-> qname, schema |-> schema]

NoHandle == [cls |-> "None"]

\* Handles as PySparkClient.table returns them: a catalog table t of database
\* d, or a temporary view t (the catalog reports no database for it)
InitialHandles ==
    {Handle(c, _fully_qualified_name(T, d), s) :
        c \in HandleTypes, d \in {D, NoneV}, s \in TableSchemas}

-----------------------------------------------------------------------------
(* Collaborators: the calls an operation issues, recorded in order *)

\* self._client.compiler.to_ast(expr)
to_ast(expr) == [call |-> "to_ast", expr |-> expr]

\* ast.queries[0]
Select(expr) == [stmt |-> "Select", expr |-> expr]

\* self._session.sql(stmt), stmt the compiled statement
sql(stmt) == [call |-> "sql", stmt |-> stmt]

\* PySparkCursor(query)
PySparkCursor(stmt) == Return([cursor |-> stmt])

\* PySparkClient.raw_sql(stmt): the engine accepts the statement (engine_ok)
\* or its error propagates
raw_sql(stmt, engine_ok) ==
    [calls |-> <<sql(stmt)>>,
     ret   |-> IF engine_ok THEN PySparkCursor(stmt)
               ELSE Raise("NativeError", <<"sql">>)]

-----------------------------------------------------------------------------
(* PySparkTable: the operations of a table handle *)

\* self._session of a table handle.  PySparkTable (client.py 44-186) defines
\* _qualified_name, _database, _unqualified_name, name and _client and no
\* _session: only the client holds the engine session (client.py 245).  The
\* expression base class resolves an unknown attribute as a column of the
\* table and fails with AttributeError.
_session(self) == Raise("AttributeError", <<"_session">>)

\* self._session.createDataFrame(obj)
createDataFrame(obj) == [call |-> "createDataFrame", obj |-> obj]

\* spark_df.insertInto(name, overwrite=overwrite)
insertInto(name, overwrite) ==
    [call |-> "insertInto", name |-> name, overwrite |-> overwrite]

\* ddl.InsertSelect(table_name, select, overwrite=overwrite)
InsertSelect(table_name, select, overwrite) ==
    [stmt |-> "InsertSelect", table_name |-> table_name, select |-> select,
     overwrite |-> overwrite]

\* PySparkTable.insert with the validation placed after the submission: the
\* mutant of a plausible bug.
insert_validate_late(self, obj, overwrite, values, validate, engine_ok) ==
    IF obj.kind = "DataFrame"
    THEN [calls |-> <<createDataFrame(obj), insertInto(self.qname, overwrite)>>,
          ret   |-> IF engine_ok THEN Return(NoneV)
                    ELSE Raise("NativeError", <<"insertInto">>)]
    ELSE IF values # NoneV
    THEN [calls |-> <<>>, ret |-> Raise("NotImplementedError", <<>>)]
    ELSE LET statement == InsertSelect(self.qname, Select(obj), overwrite)
             sent      == raw_sql(statement, engine_ok)
             checked   == IF validate /\ ~equals(obj.schema, self.schema)
                          THEN _validate_compatible(obj.schema, self.schema)
                          ELSE Return(NoneV)
         IN  [calls |-> <<to_ast(obj)>> \o sent.calls,
              ret   |-> IF Raised(checked) THEN checked ELSE sent.ret]

\* PySparkTable.insert(obj, overwrite, values, validate)
insert(self, obj, overwrite, values, validate, engine_ok) ==
    IF obj.kind = "DataFrame"
    THEN IF Raised(_session(self))
         THEN [calls |-> <<>>, ret |-> _session(self)]
         ELSE [calls |-> <<createDataFrame(obj), insertInto(self.qname, overwrite)>>,
               ret   |-> IF engine_ok THEN Return(NoneV)
                         ELSE Raise("NativeError", <<"insertInto">>)]
    ELSE IF values # NoneV
    THEN [calls |-> <<>>, ret |-> Raise("NotImplementedError", <<>>)]
    ELSE LET checked == IF validate /\ ~equals(obj.schema, self.schema)
                        THEN _validate_compatible(obj.schema, self.schema)
                        ELSE Return(NoneV)
         IN  IF Raised(checked)
             THEN [calls |-> <<>>, ret |-> checked]
             ELSE LET statement == InsertSelect(self.qname, Select(obj), overwrite)
                      sent      == raw_sql(statement, engine_ok)
                  IN  [calls |-> <<to_ast(obj)>> \o sent.calls, ret |-> sent.ret]

\* ddl.RenameTable(old_name, new_name)
RenameTable(old_name, new_name) ==
    [stmt |-> "RenameTable", old_name |-> old_name, new_name |-> new_name]

\* self.op().change_name(new_qualified_name) wrapped by type(self)(op): a new
\* node and a new handle of the same class; self is not changed
change_name(self, new_qualified_name) ==
    Handle(self.cls, new_qualified_name, self.schema)

\* PySparkTable.rename renaming the handle in place and returning a base
\* PySparkTable: the mutant of a plausible bug.
rename_in_place(self, new_name, engine_ok) ==
    LET new_qualified_name == _fully_qualified_name(new_name, _database(self))
        sent == raw_sql(RenameTable(self.qname, new_name), engine_ok)
    IN  [calls |-> sent.calls,
         ret   |-> IF Raised(sent.ret) THEN sent.ret
                   ELSE Return(Handle("PySparkTable", new_qualified_name, self.schema)),
         self  |-> IF Raised(sent.ret) THEN self
                   ELSE change_name(self, new_qualified_name)]

\* PySparkTable.rename(new_name); self is the handle after the call
rename(self, new_name, engine_ok) ==
    LET new_qualified_name == _fully_qualified_name(new_name, _database(self))
        sent == raw_sql(RenameTable(self.qname, new_name), engine_ok)
    IN  [calls |-> sent.calls,
         ret   |-> IF Raised(sent.ret) THEN sent.ret
                   ELSE Return(change_name(self, new_qualified_name)),
         self  |-> self]

\* DropTable(name, database=None, must_exist=True), as PySparkTable.drop
\* reaches it through drop_table_or_view(self._qualified_name)
DropTable(name, database, must_exist) ==
    [stmt |-> "DropTable", name |-> name, database |-> database,
     must_exist |-> must_exist]

\* PySparkTable.drop() -> PySparkClient.drop_table_or_view(name)
drop(self, engine_ok) ==
    LET sent == raw_sql(DropTable(self.qname, NoneV, TRUE), engine_ok)
    IN  [calls |-> sent.calls,
         ret   |-> IF Raised(sent.ret) THEN sent.ret ELSE Return(NoneV)]

\* TruncateTable(table_name, database=None)
TruncateTable(table_name, database) ==
    [stmt |-> "TruncateTable", table_name |-> table_name, database |-> database]

\* PySparkTable.truncate() -> PySparkClient.truncate_table(table_name)
truncate(self, engine_ok) ==
    LET sent == raw_sql(TruncateTable(self.qname, NoneV), engine_ok)
    IN  [calls |-> sent.calls,
         ret   |-> IF Raised(sent.ret) THEN sent.ret ELSE Return(NoneV)]

\* ddl.AlterTable(table, tbl_properties=tbl_properties)
AlterTable(table, tbl_properties) ==
    [stmt |-> "AlterTable", table |-> table, tbl_properties |-> tbl_properties]

\* PySparkTable.alter(tbl_properties)
alter(self, tbl_properties, engine_ok) ==
    raw_sql(AlterTable(self.qname, tbl_properties), engine_ok)

\* The table a statement issued through a handle names
Target(stmt) ==
    CASE stmt.stmt = "InsertSelect"  -> stmt.table_name
      [] stmt.stmt = "RenameTable"   -> stmt.old_name
      [] stmt.stmt = "DropTable"     -> stmt.name
      [] stmt.stmt = "TruncateTable" -> stmt.table_name
      [] stmt.stmt = "AlterTable"    -> stmt.table

-----------------------------------------------------------------------------
(* Table-handle specification: inserts through a handle obtained from       *)
(* PySparkClient.table                                                      *)

Idle == [name |-> "none"]

\* The catalog of the specifications that do not read it
NoCatalog == [dbs |-> <<>>, tables |-> <<>>, current |-> NoneV]

\* The directory tree of the specifications that do not read it
NoFiles == [dirs |-> {}, files |-> {}]

NoResult == [kind |-> "none"]

Init ==
    /\ h \in InitialHandles
    /\ old = NoHandle
    /\ was = NoneV
    /\ cat = NoCatalog
    /\ fs = NoFiles
    /\ policy = "none"
    /\ op = Idle
    /\ calls = <<>>
    /\ ret = NoResult

\* t.insert(obj, overwrite=..., values=..., validate=...)
Insert(via, obj, overwrite, values, validate, engine_ok) ==
    LET self == IF via = "h" THEN h ELSE old
        r    == insert(self, obj, overwrite, values, validate, engine_ok)
    IN  /\ self # NoHandle
        /\ op' = [name |-> "insert", via |-> via, self |-> self, obj |-> obj,
                  overwrite |-> overwrite, values |-> values,
                  validate |-> validate, engine_ok |-> engine_ok]
        /\ calls' = r.calls
        /\ ret' = r.ret
        /\ UNCHANGED <<h, old, was, cat, fs, policy>>

InsertValues == {NoneV, <<"v">>}

Next ==
    \E obj \in DataFrames \cup TableExprs, overwrite \in BOOLEAN,
       values \in InsertValues, validate \in BOOLEAN, engine_ok \in BOOLEAN :
        Insert("h", obj, overwrite, values, validate, engine_ok)

Spec == Init /\ [][Next]_vars

-----------------------------------------------------------------------------
(* Claims about insert *)

NameSet(schema) == Range(names(schema))

\* The columns of src that do not cast safely to the same-named column of dst
Uncastable(src, dst) ==
    {c \in NameSet(src) \cap NameSet(dst) : ~castable(TypeOf(src, c), TypeOf(dst, c))}

\* The schema check of an insert of src into dst fails
SchemaCheckFails(src, dst) ==
    NameSet(src) # NameSet(dst) \/ Uncastable(src, dst) # {}

ExprInsert == op.name = "insert" /\ op.obj.kind = "TableExpr"

\* C2: when insert is called with an expression and validate=True and the
\* schema check fails (the column-name sets differ, or a source column does not
\* cast to the destination column), the call raises, and it raises before the
\* expression is compiled (no to_ast) and before anything is submitted (no
\* sql): the failed insert reaches neither the compiler nor the engine.
C2_FailedInsertSubmitsNothing ==
    (ExprInsert /\ op.validate /\ SchemaCheckFails(op.obj.schema, op.self.schema))
        => /\ Raised(ret)
           /\ op.values = NoneV => ret.exc = "IbisInputError"
           /\ \A i \in 1..Len(calls) : calls[i].call \notin {"to_ast", "sql"}
           /\ calls = <<>>

C2_Witness ==
    /\ ExprInsert /\ op.validate /\ op.values = NoneV
    /\ NameSet(op.obj.schema) = NameSet(op.self.schema)
    /\ Uncastable(op.obj.schema, op.self.schema) # {}
    /\ Raised(ret) /\ ret.exc = "IbisInputError"
    /\ calls = <<>>

\* An insert on which the validation runs
ValidatedInsert == ExprInsert /\ op.validate /\ op.values = NoneV

ValidationPassed == ~(Raised(ret) /\ ret.exc = "IbisInputError")

\* C3 as stated: validation passes exactly when the name sets are equal and
\* every source column casts to the same-named destination column, and a cast
\* failure is reported by an error that cites the offending column.
C3_CastErrorCitesColumn ==
    ValidatedInsert =>
        /\ ValidationPassed <=> ~SchemaCheckFails(op.obj.schema, op.self.schema)
        /\ (/\ NameSet(op.obj.schema) = NameSet(op.self.schema)
            /\ Uncastable(op.obj.schema, op.self.schema) # {})
              => /\ ~ValidationPassed
                 /\ \E c \in Uncastable(op.obj.schema, op.self.schema) :
                        c \in Range(ret.msg)

\* C3 (amended): validation passes exactly when the name sets are equal and
\* every source column casts to the same-named destination column; with equal
\* name sets and an uncastable column it fails with the cast-incompatibility
\* error, whose message cites the source type and the destination type of the
\* first offending column in source-schema order, and not the column's name.
C3_ValidationExact ==
    ValidatedInsert =>
        LET src == op.obj.schema
            dst == op.self.schema
            bad == Uncastable(src, dst)
        IN  /\ ValidationPassed <=> ~SchemaCheckFails(src, dst)
            /\ NameSet(src) # NameSet(dst)
                 => ret = Raise("IbisInputError", <<"Schemas have different names">>)
            /\ (NameSet(src) = NameSet(dst) /\ bad # {})
                 => \E i \in 1..Len(src) :
                       /\ src[i].name \in bad
                       /\ \A j \in 1..(i - 1) : src[j].name \notin bad
                       /\ ret = Raise("IbisInputError",
                                      <<"Cannot safely cast ", src[i].type, " to ",
                                        TypeOf(dst, src[i].name)>>)
                       /\ src[i].name \notin Range(ret.msg)

C3_Witness ==
    /\ ValidatedInsert
    /\ op.obj.schema = <<Col(A, "int32"), Col(B, "string")>>
    /\ op.self.schema = <<Col(A, "string"), Col(B, "string")>>
    /\ ret = Raise("IbisInputError", <<"Cannot safely cast ", "int32", " to ", "string">>)

\* The passing half of C3's example: int32 into int64 passes and is submitted
C3_PassWitness ==
    /\ ValidatedInsert /\ op.engine_ok
    /\ op.obj.schema = <<Col(A, "int32"), Col(B, "string")>>
    /\ op.self.schema = <<Col(A, "int64"), Col(B, "string")>>
    /\ ~Raised(ret)

-----------------------------------------------------------------------------
(* Rename specification: rename, and the statements later issued through   *)
(* the renamed-from (stale) handle and through the new one                  *)

\* Names given to rename: plain names (x, the table's own name t, a name
\* holding a backquote), the empty name, and names that are already qualified
\* (quoted and unquoted, another database and the same one, an empty database)
NewNames ==
    { <<"x">>, T, <<"x", BQ, "y">>, <<>>,
      <<"e", ".", BQ, "x", BQ>>, <<"e", ".", "x">>, <<"d", ".", "x">>,
      <<".", "x">> }

RenameSchema == <<Col(A, "int32")>>

InitRename ==
    /\ h \in {Handle(c, _fully_qualified_name(T, d), RenameSchema) :
                c \in HandleTypes, d \in {D, NoneV}}
    /\ old = NoHandle
    /\ was = NoneV
    /\ cat = NoCatalog
    /\ fs = NoFiles
    /\ policy = "none"
    /\ op = Idle
    /\ calls = <<>>
    /\ ret = NoResult

Via(via) == IF via = "h" THEN h ELSE old

\* t.rename(new_name): on success the returned handle becomes h and the
\* handle it was called on becomes the stale one
Rename(via, new_name, engine_ok) ==
    LET self == Via(via)
        r    == rename(self, new_name, engine_ok)
    IN  /\ self # NoHandle
        /\ op' = [name |-> "rename", via |-> via, self |-> self,
                  new_name |-> new_name, engine_ok |-> engine_ok]
        /\ calls' = r.calls
        /\ ret' = r.ret
        /\ IF Raised(r.ret)
           THEN UNCHANGED <<h, old, was>>
           ELSE /\ h' = r.ret.value
                /\ old' = r.self
                /\ was' = self.qname
        /\ UNCHANGED <<cat, fs, policy>>

\* t.drop()
Drop(via, engine_ok) ==
    LET self == Via(via)
        r    == drop(self, engine_ok)
    IN  /\ self # NoHandle
        /\ op' = [name |-> "drop", via |-> via, self |-> self, engine_ok |-> engine_ok]
        /\ calls' = r.calls
        /\ ret' = r.ret
        /\ UNCHANGED <<h, old, was, cat, fs, policy>>

\* t.truncate()
Truncate(via, engine_ok) ==
    LET self == Via(via)
        r    == truncate(self, engine_ok)
    IN  /\ self # NoHandle
        /\ op' = [name |-> "truncate", via |-> via, self |-> self,
                  engine_ok |-> engine_ok]
        /\ calls' = r.calls
        /\ ret' = r.ret
        /\ UNCHANGED <<h, old, was, cat, fs, policy>>

TblProperties == {NoneV, <<"p">>}

\* t.alter(tbl_properties)
Alter(via, tbl_properties, engine_ok) ==
    LET self == Via(via)
        r    == alter(self, tbl_properties, engine_ok)
    IN  /\ self # NoHandle
        /\ op' = [name |-> "alter", via |-> via, self |-> self,
                  tbl_properties |-> tbl_properties, engine_ok |-> engine_ok]
        /\ calls' = r.calls
        /\ ret' = r.ret
        /\ UNCHANGED <<h, old, was, cat, fs, policy>>

\* An expression inserted through a handle of the rename specification
RenameInsertObj == [kind |-> "TableExpr", schema |-> RenameSchema]

NextRename ==
    \E via \in {"h", "old"}, engine_ok \in BOOLEAN :
        \/ \E new_name \in NewNames : Rename(via, new_name, engine_ok)
        \/ Drop(via, engine_ok)
        \/ Truncate(via, engine_ok)
        \/ \E p \in TblProperties : Alter(via, p, engine_ok)
        \/ \E overwrite \in BOOLEAN :
              Insert(via, RenameInsertObj, overwrite, NoneV, TRUE, engine_ok)

SpecRename == InitRename /\ [][NextRename]_vars

-----------------------------------------------------------------------------
(* Claims about rename *)

Renamed == op.name = "rename" /\ ~Raised(ret)

\* What rename always does: exactly one rename statement from the handle's
\* current qualified name to new_name; on success a handle of the same
\* concrete type, and the handle it was called on keeps its qualified name;
\* every statement later issued through the stale handle names the table the
\* handle named before the rename.
RenameCommon ==
    /\ op.name = "rename"
         => calls = <<sql(RenameTable(op.self.qname, op.new_name))>>
    /\ Renamed
         => /\ ret.value.cls = op.self.cls
            /\ h = ret.value
            /\ old.qname = op.self.qname
            /\ was = op.self.qname
    /\ (op.name \in {"rename", "drop", "truncate", "alter", "insert"} /\ op.via = "old")
         => /\ calls # <<>>
            /\ Target(calls[Len(calls)].stmt) = was

-----------------------------------------------------------------------------
(* PySparkClient.create_table *)

\* obj=None
NoObj == [kind |-> "None"]

\* spark_df.write.saveAsTable(table_name, format=format, mode=mode)
saveAsTable(table_name, format, mode) ==
    [call |-> "saveAsTable", table_name |-> table_name, format |-> format,
     mode |-> mode]

\* ddl.CTAS(table_name, select, database=, can_exist=, format=)
CTAS(table_name, select, database, can_exist, format) ==
    [stmt |-> "CTAS", table_name |-> table_name, select |-> select,
     database |-> database, can_exist |-> can_exist, format |-> format]

\* ddl.CreateTableWithSchema(table_name, schema, database=, format=, can_exist=)
CreateTableWithSchema(table_name, schema, database, format, can_exist) ==
    [stmt |-> "CreateTableWithSchema", table_name |-> table_name,
     schema |-> schema, database |-> database, format |-> format,
     can_exist |-> can_exist]

\* PySparkClient.create_table(table_name, obj, schema, database, force, format)
create_table(table_name, obj, schema, database, force, format, engine_ok) ==
    IF obj # NoObj
    THEN IF obj.kind = "DataFrame"
         THEN [calls |-> <<createDataFrame(obj),
                           saveAsTable(table_name, format,
                                       IF force THEN "overwrite" ELSE "error")>>,
               ret   |-> IF engine_ok THEN Return(NoneV)
                         ELSE Raise("NativeError", <<"saveAsTable">>)]
         ELSE LET statement == CTAS(table_name, Select(obj), database, force, format)
                  sent      == raw_sql(statement, engine_ok)
              IN  [calls |-> <<to_ast(obj)>> \o sent.calls, ret |-> sent.ret]
    ELSE IF schema # NoneV
    THEN raw_sql(CreateTableWithSchema(table_name, schema, database, format, force),
                 engine_ok)
    ELSE [calls |-> <<>>, ret |-> Raise("IbisError", <<"Must pass expr or schema">>)]

-----------------------------------------------------------------------------
(* Client specification: the operations of PySparkClient that build and     *)
(* submit statements                                                        *)

InitClient ==
    /\ h = NoHandle
    /\ old = NoHandle
    /\ was = NoneV
    /\ cat = NoCatalog
    /\ fs = NoFiles
    /\ policy = "none"
    /\ op = Idle
    /\ calls = <<>>
    /\ ret = NoResult

CreateTable(table_name, obj, schema, database, force, format, engine_ok) ==
    LET r == create_table(table_name, obj, schema, database, force, format, engine_ok)
    IN  /\ op' = [name |-> "create_table", table_name |-> table_name, obj |-> obj,
                  schema |-> schema, database |-> database, force |-> force,
                  format |-> format, engine_ok |-> engine_ok]
        /\ calls' = r.calls
        /\ ret' = r.ret
        /\ UNCHANGED <<h, old, was, cat, fs, policy>>

CreateNames == {T, <<"d", ".", "t">>}

CreateObjs ==
    { NoObj,
      [kind |-> "DataFrame", schema |-> <<Col(A, "int32")>>],
      [kind |-> "TableExpr", schema |-> <<Col(A, "int32")>>] }

CreateSchemas == {NoneV, <<Col(A, "int64"), Col(B, "string")>>}

Formats == {"parquet", "orc"}

NextClient ==
    \E table_name \in CreateNames, obj \in CreateObjs, schema \in CreateSchemas,
       database \in {NoneV, D}, force \in BOOLEAN, format \in Formats,
       engine_ok \in BOOLEAN :
        CreateTable(table_name, obj, schema, database, force, format, engine_ok)

SpecClient == InitClient /\ [][NextClient]_vars

\* C1: create_table called with both obj and schema, or with neither, always
\* fails, and fails before any call to the native engine (no createDataFrame,
\* no saveAsTable, no statement through raw_sql), for every table_name,
\* database, force and format.
C1_BothOrNeitherFails ==
    (/\ op.name = "create_table"
     /\ \/ op.obj # NoObj /\ op.schema # NoneV
        \/ op.obj = NoObj /\ op.schema = NoneV)
        => Raised(ret) /\ calls = <<>>

\* The half of C1 the code keeps: with neither obj nor schema the call raises
\* IbisError before any native call.
C1_NeitherFails ==
    (op.name = "create_table" /\ op.obj = NoObj /\ op.schema = NoneV)
        => ret = Raise("IbisError", <<"Must pass expr or schema">>) /\ calls = <<>>

-----------------------------------------------------------------------------
(* The engine's catalog, as PySparkClient reads it through self._catalog    *)

MaxDbs == 2
MaxTables == 2

\* Database and table names of the catalog: one name is a proper prefix of
\* the other
DbNames == {<<"d">>, <<"d", "b">>}
TableNames == {<<"t">>, <<"t", "u">>}

NoRepeat(q) == \A i, j \in 1..Len(q) : i # j => q[i] # q[j]

\* Sequences of length 0..n of distinct elements of S
RECURSIVE DistinctSeqs(_, _)
DistinctSeqs(S, n) ==
    IF n = 0 THEN {<<>>}
    ELSE LET shorter == DistinctSeqs(S, n - 1)
             longest == {q \in shorter : Len(q) = n - 1}
         IN  shorter \cup {r \in {Append(q, x) : q \in longest, x \in S} : NoRepeat(r)}

\* A catalog entry: a table of a database, or a temporary view (no database)
Entry(database, name) == [database |-> database, name |-> name]

\* The catalogs: at least one database, the first one current; tables and
\* views in catalog order
Catalogs ==
    {[dbs |-> dbs, tables |-> tables, current |-> dbs[1]] :
        dbs \in DistinctSeqs(DbNames, MaxDbs) \ {<<>>},
        tables \in DistinctSeqs({Entry(d, n) : d \in DbNames \cup {NoneV},
                                               n \in TableNames}, MaxTables)}

\* cat is a catalog: every table is in a database of the catalog
WellFormed(c) ==
    \A i \in 1..Len(c.tables) :
        c.tables[i].database \in Range(c.dbs) \cup {NoneV}

\* self._catalog.listDatabases()
listDatabases == cat.dbs

\* self._catalog.listTables(dbName=database): the tables of the database (the
\* current one for None) and the temporary views, in catalog order; an unknown
\* database is an AnalysisException
listTables(dbName) ==
    LET db == IF dbName = NoneV THEN cat.current ELSE dbName
    IN  IF db \notin Range(cat.dbs)
        THEN Raise("AnalysisException", <<"database not found">>)
        ELSE Return(SelectSeq(cat.tables,
                              LAMBDA e : e.database = db \/ e.database = NoneV))

\* A name part without the backquotes around it
Unquote(x) ==
    IF Len(x) >= 2 /\ x[1] = BQ /\ x[Len(x)] = BQ THEN SubSeq(x, 2, Len(x) - 1)
    ELSE x

\* self._catalog._jcatalog.getTable(qualified_name): the engine reads
\* database.table (either part possibly backquoted); without a database it
\* looks for a temporary view, then in the current database
getTable(qualified_name) ==
    LET parts == IF Dots(qualified_name) = {}
                 THEN <<NoneV, Unquote(qualified_name)>>
                 ELSE LET d == Max(Dots(qualified_name))
                      IN  <<Unquote(SubSeq(qualified_name, 1, d - 1)),
                            Unquote(SubSeq(qualified_name, d + 1, Len(qualified_name)))>>
        found == IF parts[1] = NoneV
                 THEN IF Entry(NoneV, parts[2]) \in Range(cat.tables)
                      THEN {Entry(NoneV, parts[2])}
                      ELSE {Entry(cat.current, parts[2])} \cap Range(cat.tables)
                 ELSE {Entry(parts[1], parts[2])} \cap Range(cat.tables)
    IN  IF found = {} THEN Raise("AnalysisException", <<"table not found">>)
        ELSE Return(CHOOSE e \in found : TRUE)

-----------------------------------------------------------------------------
\* re.match(pattern, string) for patterns made of literal characters, "."
\* (any character), a trailing "*" on either (zero or more), and a final "$":
\* TRUE when a prefix of string matches the whole pattern.
RECURSIVE re_match(_, _)
re_match(pattern, string) ==
    IF pattern = <<>> THEN TRUE
    ELSE IF Len(pattern) >= 2 /\ pattern[2] = "*"
    THEN \E k \in 0..Len(string) :
            /\ \A i \in 1..k : pattern[1] = "." \/ string[i] = pattern[1]
            /\ re_match(SubSeq(pattern, 3, Len(pattern)),
                        SubSeq(string, k + 1, Len(string)))
    ELSE IF pattern = <<"$">> THEN string = <<>>
    ELSE /\ string # <<>>
         /\ pattern[1] = "." \/ pattern[1] = string[1]
         /\ re_match(Tail(pattern), Tail(string))

\* re.search(pattern, string): a match starting anywhere
re_search(pattern, string) ==
    \E k \in 0..Len(string) : re_match(pattern, SubSeq(string, k + 1, Len(string)))

EntryNames(entries) == [i \in 1..Len(entries) |-> entries[i].name]

\* PySparkClient.list_tables filtering with a match anywhere in the name
\* instead of a match from its start: the mutant of a plausible bug.
list_tables_search(like, database) ==
    LET listed == listTables(database)
    IN  IF Raised(listed) THEN listed
        ELSE LET results == EntryNames(listed.value)
             IN  IF Truthy(like)
                 THEN Return(SelectSeq(results, LAMBDA n : re_search(like, n)))
                 ELSE Return(results)

\* PySparkClient.list_tables(like, database)
list_tables(like, database) ==
    LET listed == listTables(database)
    IN  IF Raised(listed) THEN listed
        ELSE LET results == EntryNames(listed.value)
             IN  IF Truthy(like)
                 THEN Return(SelectSeq(results, LAMBDA n : re_match(like, n)))
                 ELSE Return(results)

\* PySparkClient.list_databases(like)
list_databases(like) ==
    LET results == listDatabases
    IN  IF Truthy(like)
        THEN Return(SelectSeq(results, LAMBDA n : re_match(like, n)))
        ELSE Return(results)

\* PySparkClient._get_jtable(name, database)
_get_jtable(name, database) ==
    LET jtable == getTable(_fully_qualified_name(name, database))
    IN  IF Raised(jtable)
        THEN [kind |-> "raise", exc |-> "IbisInputError", msg |-> jtable.msg,
              cause |-> jtable]
        ELSE jtable

\* PySparkClient.exists_table(name, database)
exists_table(name, database) ==
    IF Raised(_get_jtable(name, database)) THEN Return(FALSE) ELSE Return(TRUE)

\* PySparkClient.exists_database(name)
exists_database(name) == Return(list_databases(name).value # <<>>)

\* self._session.table(table_name), whose schema get_schema infers
session_table(table_name) == [call |-> "table", table_name |-> table_name]

\* The class of the handles the backend builds (backend.table_expr_class)
table_expr_class == "PySparkTable"

\* PySparkClient.table naming the handle after its arguments instead of the
\* catalog entry: the mutant of a plausible bug.
table_from_arguments(name, database, schema) ==
    LET looked == [call |-> "getTable",
                   name |-> _fully_qualified_name(name, database)]
        jtable == _get_jtable(name, database)
    IN  IF Raised(jtable) THEN [calls |-> <<looked>>, ret |-> jtable]
        ELSE LET qualified_name == _fully_qualified_name(name, database)
             IN  [calls |-> <<looked, session_table(qualified_name)>>,
                  ret   |-> Return(Handle(table_expr_class, qualified_name, schema))]

\* PySparkClient.table(name, database); schema is the schema the engine
\* reports for the table
table(name, database, schema) ==
    LET looked == [call |-> "getTable",
                   name |-> _fully_qualified_name(name, database)]
        jtable == _get_jtable(name, database)
    IN  IF Raised(jtable) THEN [calls |-> <<looked>>, ret |-> jtable]
        ELSE LET qualified_name ==
                     _fully_qualified_name(jtable.value.name, jtable.value.database)
             IN  [calls |-> <<looked, session_table(qualified_name)>>,
                  ret   |-> Return(Handle(table_expr_class, qualified_name, schema))]

-----------------------------------------------------------------------------
(* Catalog specification: the listing, existence and lookup operations of   *)
(* PySparkClient over a catalog                                             *)

InitCatalog ==
    /\ h = NoHandle
    /\ old = NoHandle
    /\ was = NoneV
    /\ cat \in {c \in Catalogs : WellFormed(c)}
    /\ fs = NoFiles
    /\ policy = "none"
    /\ op = Idle
    /\ calls = <<>>
    /\ ret = NoResult

\* Patterns given as like: none, the empty one, literals, and patterns with
\* ".", "*" and "$"
Patterns ==
    { NoneV, <<>>, <<"t">>, <<"t", "u">>, <<"u">>, <<"t", ".", "*">>,
      <<".", "*", "u">>, <<"t", "$">>, <<"d">>, <<"d", ".">>, <<"b">> }

\* con.list_tables(like=..., database=...)
ListTables(like, database) ==
    /\ op' = [name |-> "list_tables", like |-> like, database |-> database]
    /\ calls' = <<[call |-> "listTables", dbName |-> database]>>
    /\ ret' = list_tables(like, database)
    /\ UNCHANGED <<h, old, was, cat, fs, policy>>

\* con.list_databases(like=...)
ListDatabases(like) ==
    /\ op' = [name |-> "list_databases", like |-> like]
    /\ calls' = <<[call |-> "listDatabases"]>>
    /\ ret' = list_databases(like)
    /\ UNCHANGED <<h, old, was, cat, fs, policy>>

\* con.exists_table(name, database)
ExistsTable(name, database) ==
    /\ op' = [name |-> "exists_table", table |-> name, database |-> database]
    /\ calls' = <<[call |-> "getTable", name |-> _fully_qualified_name(name, database)]>>
    /\ ret' = exists_table(name, database)
    /\ UNCHANGED <<h, old, was, cat, fs, policy>>

\* con.exists_database(name)
ExistsDatabase(name) ==
    /\ op' = [name |-> "exists_database", database |-> name]
    /\ calls' = <<[call |-> "listDatabases"]>>
    /\ ret' = exists_database(name)
    /\ UNCHANGED <<h, old, was, cat, fs, policy>>

\* con.table(name, database)
Table(name, database, schema) ==
    LET r == table(name, database, schema)
    IN  /\ op' = [name |-> "table", table |-> name, database |-> database]
        /\ calls' = r.calls
        /\ ret' = r.ret
        /\ UNCHANGED <<h, old, was, cat, fs, policy>>

\* Table names given to the lookups: plain and already qualified
LookupNames == TableNames \cup {<<"d", ".", "t">>, <<"d", ".", BQ, "t", "u", BQ>>}

\* Database names given to exists_database: the catalog's names and an
\* unknown name
ProbeNames == DbNames \cup {<<"e">>}

NextCatalog ==
    \/ \E like \in Patterns, database \in DbNames \cup {NoneV} :
          ListTables(like, database)
    \/ \E like \in Patterns : ListDatabases(like)
    \/ \E name \in LookupNames, database \in DbNames \cup {NoneV} :
          ExistsTable(name, database)
    \/ \E name \in ProbeNames : ExistsDatabase(name)
    \/ \E name \in LookupNames, database \in DbNames \cup {NoneV},
          schema \in {<<Col(A, "int32")>>, <<Col(A, "int64"), Col(B, "string")>>} :
          Table(name, database, schema)

SpecCatalog == InitCatalog /\ [][NextCatalog]_vars

-----------------------------------------------------------------------------
(* Claims about the listings and the existence probes *)

\* r is full with some elements left out (the order kept)
IsSubList(r, full) ==
    \E keep \in SUBSET (1..Len(full)) :
        /\ Cardinality(keep) = Len(r)
        /\ \A i \in 1..Len(r) :
              \E k \in keep : /\ Cardinality({m \in keep : m < k}) = i - 1
                              /\ full[k] = r[i]

\* r is exactly the elements of full that match pattern from the start, in
\* the order of full; all of full without a pattern
FilteredListing(r, full, pattern) ==
    IF Truthy(pattern)
    THEN /\ IsSubList(r, full)
         /\ \A i \in 1..Len(r) : re_match(pattern, r[i])
         /\ Len(r) = Cardinality({k \in 1..Len(full) : re_match(pattern, full[k])})
    ELSE r = full

\* C9: list_tables(like=p, database=d) returns exactly the sub-list of the
\* catalog's listing for d whose names match p from the start of the string,
\* in the catalog's order, and the whole listing when there is no pattern;
\* list_databases(like) filters the database listing the same way.
C9_ListingsFilterFromStart ==
    /\ (op.name = "list_tables" /\ ~Raised(listTables(op.database)))
         => /\ ~Raised(ret)
            /\ FilteredListing(ret.value,
                               EntryNames(listTables(op.database).value), op.like)
    /\ op.name = "list_databases"
         => /\ ~Raised(ret)
            /\ FilteredListing(ret.value, cat.dbs, op.like)

\* A pattern that occurs inside a listed name but not at its start leaves it out
C9_Witness ==
    /\ op.name = "list_tables" /\ op.like = <<"u">> /\ op.database = NoneV
    /\ EntryNames(listTables(NoneV).value) = <<<<"t", "u">>, <<"t">>>>
    /\ ret = Return(<<>>)

\* The catalog has the table the arguments of exists_table name
CatalogHas(name, database) ==
    Entry(database, name) \in Range(cat.tables)

\* C10: the existence probes are accurate booleans: exists_table returns True
\* when the catalog has the table and False when the lookup fails, never
\* raising; exists_database(name) returns True exactly when a database with
\* that name is in the catalog, and False when only databases whose names
\* start with or pattern-match name are.
C10_ProbesAccurate ==
    /\ op.name = "exists_table"
         => /\ ret \in {Return(TRUE), Return(FALSE)}
            /\ ret.value = ~Raised(getTable(_fully_qualified_name(op.table, op.database)))
            /\ (op.table \in TableNames /\ op.database # NoneV)
                  => ret.value = CatalogHas(op.table, op.database)
    /\ op.name = "exists_database"
         => ret = Return(op.database \in Range(cat.dbs))

\* The half of C10 the code keeps: exists_table
C10_ExistsTableAccurate ==
    op.name = "exists_table"
         => /\ ret \in {Return(TRUE), Return(FALSE)}
            /\ ret.value = ~Raised(getTable(_fully_qualified_name(op.table, op.database)))
            /\ (op.table \in TableNames /\ op.database # NoneV)
                  => ret.value = CatalogHas(op.table, op.database)

-----------------------------------------------------------------------------
(* The file backend: FileClient and FileDatabase over a directory tree      *)

MaxEntries == 3
MaxDepth == 2

\* backend.extension
Extension == <<"c", "s", "v">>

\* A path under the root is the sequence of its components; the root is <<>>
Root == <<>>

\* str(self.root)
RootStr == <<"/", "r">>

\* File and directory names: a and s (without extension), a.csv and b.csv
FileNames ==
    { <<"a">>, <<"a", ".", "c", "s", "v">>, <<"b", ".", "c", "s", "v">>, <<"s">> }

\* The names in a fixed order
NameOrder ==
    << <<"a">>, <<"a", ".", "c", "s", "v">>, <<"b", ".", "c", "s", "v">>, <<"s">> >>

\* str(path)
RECURSIVE str(_)
str(path) ==
    IF path = <<>> THEN RootStr
    ELSE str(SubSeq(path, 1, Len(path) - 1)) \o <<"/">> \o path[Len(path)]

\* s.endswith(suffix)
endswith(s, suffix) ==
    /\ Len(suffix) <= Len(s)
    /\ SubSeq(s, Len(s) - Len(suffix) + 1, Len(s)) = suffix

\* Path.stem: the last component without its last suffix; a leading or a
\* trailing dot starts no suffix
stem(path) ==
    LET name == path[Len(path)]
        d    == IF Dots(name) = {} THEN 0 ELSE Max(Dots(name))
    IN  IF 1 < d /\ d < Len(name) THEN SubSeq(name, 1, d - 1) ELSE name

\* Path.name
basename(path) == path[Len(path)]

is_dir(path) == path \in fs.dirs

is_file(path) == path \in fs.files

\* The entries of directory path
Children(path) ==
    {c \in fs.dirs \cup fs.files :
        Len(c) = Len(path) + 1 /\ SubSeq(c, 1, Len(path)) = path}

\* The entries of directory path, in the fixed order of the names
Listed(path) ==
    SelectSeq([i \in 1..Len(NameOrder) |-> path \o <<NameOrder[i]>>],
              LAMBDA c : c \in fs.dirs \cup fs.files)

\* path.iterdir(): the entries of the directory, in an order the operating
\* system chooses
iterdir(path) ==
    {[i \in 1..Len(Listed(path)) |-> Listed(path)[f[i]]] :
        f \in Permutations(1..Len(Listed(path)))}

\* path=None: a path that is no path of the tree (its one component is None)
NoPath == <<NoneV>>

\* path if path is not None else self.root
OrRoot(path) == IF path = NoPath THEN Root ELSE path

\* FileClient._list_tables_files without the test of the extension: the
\* mutant of a plausible bug.
_list_tables_files_any(path, order) ==
    IF is_dir(OrRoot(path))
    THEN LET kept == SelectSeq(order, LAMBDA d : is_file(d))
         IN  [i \in 1..Len(kept) |-> stem(kept[i])]
    ELSE IF is_file(OrRoot(path)) THEN <<stem(OrRoot(path))>>
    ELSE <<>>

\* FileClient._list_tables_files(path); order is what path.iterdir() yields
_list_tables_files(path, order) ==
    IF is_dir(OrRoot(path))
    THEN LET kept == SelectSeq(order,
                               LAMBDA d : is_file(d) /\ endswith(str(d), Extension))
         IN  [i \in 1..Len(kept) |-> stem(kept[i])]
    ELSE IF is_file(OrRoot(path)) /\ endswith(str(OrRoot(path)), Extension)
    THEN <<stem(OrRoot(path))>>
    ELSE <<>>

\* FileClient._list_databases_dirs(path)
_list_databases_dirs(path, order) ==
    IF is_dir(OrRoot(path))
    THEN LET kept == SelectSeq(order, LAMBDA d : is_dir(d))
         IN  [i \in 1..Len(kept) |-> basename(kept[i])]
    ELSE <<>>

\* FileClient._list_databases_dirs_or_files(path)
_list_databases_dirs_or_files(path, order) ==
    IF is_dir(OrRoot(path))
    THEN LET kept == SelectSeq(order,
                               LAMBDA d : \/ is_dir(d)
                                          \/ is_file(d) /\ endswith(str(d), Extension))
         IN  [i \in 1..Len(kept) |->
                 IF is_dir(kept[i]) THEN basename(kept[i]) ELSE stem(kept[i])]
    ELSE <<>>

\* The listing policies a concrete backend binds list_databases to
Policies == {"dirs", "dirs_or_files"}

\* list_databases(path) of the concrete backend: one of the two policies
file_list_databases(path, order) ==
    IF policy = "dirs" THEN _list_databases_dirs(path, order)
    ELSE _list_databases_dirs_or_files(path, order)

\* list_tables(path) of the concrete backend: the files-as-tables policy
file_list_tables(path, order) == _list_tables_files(path, order)

\* Some order of the entries of path (for membership tests, which do not
\* depend on it)
AnyOrder(path) == IF is_dir(OrRoot(path)) THEN Listed(OrRoot(path)) ELSE <<>>

\* FileDatabase(name, client, path=path)
FileDatabase(name, path) == [node |-> "FileDatabase", name |-> name, path |-> path]

\* FileClient.database with the listing consulted for every name, None
\* included: the mutant of a plausible bug.
file_database_always_listed(name, path) ==
    IF name \notin Range(file_list_databases(path, AnyOrder(path)))
    THEN [calls |-> <<"list_databases">>, ret |-> Raise("AttributeError", name)]
    ELSE [calls |-> <<"list_databases">>,
          ret   |-> Return(FileDatabase(name, OrRoot(path) \o <<name>>))]

\* FileClient.database without the test against the listing: the mutant of
\* a plausible bug.
file_database_unlisted(name, path) ==
    IF name = NoneV
    THEN [calls |-> <<>>, ret |-> Return(FileDatabase(<<"r", "o", "o", "t">>, path))]
    ELSE LET new_name == name \o <<".">> \o Extension
         IN  [calls |-> <<"is_dir">>,
              ret   |-> Return(FileDatabase(name,
                          IF is_dir(Root \o <<name>>) THEN OrRoot(path) \o <<name>>
                          ELSE IF ~endswith(str(OrRoot(path)), new_name)
                          THEN OrRoot(path) \o <<new_name>>
                          ELSE OrRoot(path)))]

\* FileClient.database(name, path); calls are the filesystem look-ups made
file_database(name, path) ==
    IF name = NoneV
    THEN [calls |-> <<>>, ret |-> Return(FileDatabase(<<"r", "o", "o", "t">>, path))]
    ELSE IF name \notin Range(file_list_databases(path, AnyOrder(path)))
    THEN [calls |-> <<"list_databases">>, ret |-> Raise("AttributeError", name)]
    ELSE LET new_name == name \o <<".">> \o Extension
         IN  [calls |-> <<"list_databases", "is_dir">>,
              ret   |-> Return(FileDatabase(name,
                          IF is_dir(Root \o <<name>>) THEN OrRoot(path) \o <<name>>
                          ELSE IF ~endswith(str(OrRoot(path)), new_name)
                          THEN OrRoot(path) \o <<new_name>>
                          ELSE OrRoot(path)))]

\* table(name, path) of the concrete backend: a name that is not in the table
\* listing at path is not found (AttributeError); otherwise the table read
\* from path/name.extension
file_table(name, path) ==
    IF name \notin Range(file_list_tables(path, AnyOrder(path)))
    THEN Raise("AttributeError", name)
    ELSE Return([node |-> "Table", name |-> name,
                 path |-> OrRoot(path) \o <<name \o <<".">> \o Extension>>])

\* FileDatabase.__getattr__ asking for the database first: the mutant of a
\* plausible bug.
getattr_database_first(self, name) ==
    IF Raised(file_database(name, self.path).ret)
    THEN file_table(name, self.path)
    ELSE file_database(name, self.path).ret

\* FileDatabase.__getattr__(name)
getattr(self, name) ==
    IF Raised(file_table(name, self.path)) /\ file_table(name, self.path).exc = "AttributeError"
    THEN file_database(name, self.path).ret
    ELSE file_table(name, self.path)

-----------------------------------------------------------------------------
(* File specification: a directory tree that grows, and the look-ups of     *)
(* FileClient and FileDatabase over it.  The client is used from one        *)
(* thread: a look-up is called when no call is in progress and returns      *)
(* before the next event.  The look-ups do not change the tree, so every    *)
(* tree is met by every look-up.                                            *)

InitFile ==
    /\ h = NoHandle
    /\ old = NoHandle
    /\ was = NoneV
    /\ cat = NoCatalog
    /\ fs = [dirs |-> {Root}, files |-> {}]
    /\ policy \in Policies
    /\ op = Idle
    /\ calls = <<>>
    /\ ret = NoResult

CanCreate(parent, name) ==
    /\ op = Idle
    /\ parent \in fs.dirs
    /\ Len(parent) < MaxDepth
    /\ parent \o <<name>> \notin fs.dirs \cup fs.files
    /\ Cardinality(fs.dirs \cup fs.files) <= MaxEntries

\* The environment creates a directory
MkDir(parent, name) ==
    /\ CanCreate(parent, name)
    /\ fs' = [fs EXCEPT !.dirs = @ \cup {parent \o <<name>>}]
    /\ UNCHANGED <<h, old, was, cat, policy, op, calls, ret>>

\* The environment creates a file
MkFile(parent, name) ==
    /\ CanCreate(parent, name)
    /\ fs' = [fs EXCEPT !.files = @ \cup {parent \o <<name>>}]
    /\ UNCHANGED <<h, old, was, cat, policy, op, calls, ret>>

\* Paths given to the look-ups: None, every existing directory and file, and
\* s whether or not it exists
PathArgs == {NoPath, <<<<"s">>>>} \cup fs.dirs \cup fs.files

\* Names looked up
NameArgs == {<<"a">>, <<"b">>, <<"s">>}

Orders(path) == IF is_dir(OrRoot(path)) THEN iterdir(OrRoot(path)) ELSE {<<>>}

\* client.list_tables(path)
ListTablesFiles(path, order) ==
    /\ op = Idle
    /\ op' = [name |-> "list_tables", path |-> path]
    /\ calls' = <<"list_tables">>
    /\ ret' = Return(file_list_tables(path, order))
    /\ UNCHANGED <<h, old, was, cat, fs, policy>>

\* client.list_databases(path)
ListDatabasesFiles(path, order) ==
    /\ op = Idle
    /\ op' = [name |-> "list_databases", path |-> path]
    /\ calls' = <<"list_databases">>
    /\ ret' = Return(file_list_databases(path, order))
    /\ UNCHANGED <<h, old, was, cat, fs, policy>>

\* client.database(name, path)
DatabaseLookup(name, path) ==
    LET r == file_database(name, path)
    IN  /\ op = Idle
        /\ op' = [name |-> "database", db |-> name, path |-> path]
        /\ calls' = r.calls
        /\ ret' = r.ret
        /\ UNCHANGED <<h, old, was, cat, fs, policy>>

\* node.<name> on a FileDatabase node bound to path
GetAttr(path, name) ==
    /\ op = Idle
    /\ op' = [name |-> "getattr", attr |-> name, path |-> path]
    /\ calls' = <<"table">>
    /\ ret' = getattr(FileDatabase(<<"n">>, path), name)
    /\ UNCHANGED <<h, old, was, cat, fs, policy>>

\* The look-up returns to its caller
FileReturn ==
    /\ op # Idle
    /\ op' = Idle /\ calls' = <<>> /\ ret' = NoResult
    /\ UNCHANGED <<h, old, was, cat, fs, policy>>

NextFile ==
    \/ FileReturn
    \/ \E parent \in fs.dirs, name \in FileNames : MkDir(parent, name)
    \/ \E parent \in fs.dirs, name \in FileNames : MkFile(parent, name)
    \/ \E path \in PathArgs : \E order \in Orders(path) : ListTablesFiles(path, order)
    \/ \E path \in PathArgs : \E order \in Orders(path) : ListDatabasesFiles(path, order)
    \/ \E name \in NameArgs \cup {NoneV}, path \in PathArgs : DatabaseLookup(name, path)
    \/ \E path \in PathArgs, name \in NameArgs : GetAttr(path, name)

SpecFile == InitFile /\ [][NextFile]_vars

-----------------------------------------------------------------------------
(* Claims about the file backend *)

ChildDirs(p) == Children(p) \cap fs.dirs

ChildFiles(p) == Children(p) \cap fs.files

\* The stems of the files of directory p whose name ends with the extension
TableStems(p) ==
    {stem(c) : c \in {f \in ChildFiles(p) : endswith(basename(f), Extension)}}

DirNames(p) == {basename(c) : c \in ChildDirs(p)}

\* The directory of the example: files a.csv and b.csv and a subdirectory
ExampleDir(p) ==
    /\ is_dir(p)
    /\ Children(p) = {p \o <<n>> : n \in {<<"a", ".", "c", "s", "v">>,
                                          <<"b", ".", "c", "s", "v">>, <<"s">>}}
    /\ ChildDirs(p) = {p \o <<<<"s">>>>}

\* What the table listing is, for a directory and for a single file, and
\* that a single file lists no database
C6_TablesAndSingleFile ==
    /\ (op.name = "list_tables" /\ is_dir(OrRoot(op.path)))
         => Range(ret.value) = TableStems(OrRoot(op.path))
    /\ (op.name = "list_tables" /\ is_file(OrRoot(op.path)))
         => ret.value = IF endswith(basename(op.path), Extension)
                        THEN <<stem(op.path)>> ELSE <<>>
    /\ (op.name = "list_databases" /\ is_file(OrRoot(op.path)))
         => ret.value = <<>>

\* C6 as stated: in directories-and-files mode the databases of a directory
\* are its subdirectories only (for a.csv, b.csv and sub/: {sub}).
C6_DatabasesAreSubdirectories ==
    /\ C6_TablesAndSingleFile
    /\ (op.name = "list_databases" /\ policy = "dirs_or_files"
          /\ is_dir(OrRoot(op.path)))
         => Range(ret.value) = DirNames(OrRoot(op.path))

\* C6 (amended): for a directory containing files a.csv and b.csv and a
\* subdirectory sub/, the walker in directories-and-files mode lists
\* databases = {sub, a, b} (the subdirectories and the stems of the files with
\* the extension; the directories-only mode lists {sub}) and tables = {a, b};
\* the table listing of a directory is exactly the stems of its immediate
\* child files whose name ends with the extension, and for a path that is a
\* single file the table list is that file's stem (if the extension matches)
\* and the database list is empty.
C6_Listings ==
    /\ C6_TablesAndSingleFile
    /\ (op.name = "list_databases" /\ is_dir(OrRoot(op.path)))
         => Range(ret.value) =
              IF policy = "dirs_or_files"
              THEN DirNames(OrRoot(op.path)) \cup TableStems(OrRoot(op.path))
              ELSE DirNames(OrRoot(op.path))
    /\ (op.name = "list_databases" /\ ExampleDir(OrRoot(op.path)))
         => Range(ret.value) = IF policy = "dirs_or_files"
                               THEN {<<"s">>, <<"a">>, <<"b">>} ELSE {<<"s">>}
    /\ (op.name = "list_tables" /\ ExampleDir(OrRoot(op.path)))
         => Range(ret.value) = {<<"a">>, <<"b">>}

C6_Witness ==
    /\ op.name = "list_databases" /\ policy = "dirs_or_files"
    /\ ExampleDir(OrRoot(op.path))
    /\ Range(ret.value) = {<<"s">>, <<"a">>, <<"b">>}

\* name is a database at p under the policy in force, read off the tree
IsDatabaseAt(name, p) ==
    \/ is_dir(p \o <<name>>)
    \/ /\ policy = "dirs_or_files"
       /\ \E f \in ChildFiles(p) : endswith(basename(f), Extension) /\ stem(f) = name

IsTableAt(name, p) ==
    \E f \in ChildFiles(p) : endswith(basename(f), Extension) /\ stem(f) = name

\* C5: attribute look-up tries table(name) at the node's path first and falls
\* back to database(name) only on AttributeError: with both a table file
\* name.ext and a subdirectory name/ under the node it resolves to the table,
\* and when neither look-up succeeds it fails with AttributeError.
C5_TableBeforeDatabase ==
    op.name = "getattr" =>
        LET p == OrRoot(op.path)
            both == is_file(p \o <<op.attr \o <<".">> \o Extension>>)
                    /\ is_dir(p \o <<op.attr>>)
        IN  /\ both => ret = Return([node |-> "Table", name |-> op.attr,
                                     path |-> p \o <<op.attr \o <<".">> \o Extension>>])
            /\ ~Raised(file_table(op.attr, op.path)) => ret = file_table(op.attr, op.path)
            /\ (is_dir(p) /\ IsTableAt(op.attr, p))
                  => (~Raised(ret) /\ ret.value.node = "Table")
            /\ (is_dir(p) /\ ~IsTableAt(op.attr, p) /\ ~IsDatabaseAt(op.attr, p))
                  => ret = Raise("AttributeError", op.attr)
            /\ (is_dir(p) /\ ~IsTableAt(op.attr, p) /\ IsDatabaseAt(op.attr, p))
                  => (~Raised(ret) /\ ret.value.node = "FileDatabase")

C5_Witness ==
    /\ op.name = "getattr" /\ op.attr = <<"a">>
    /\ is_file(OrRoot(op.path) \o <<<<"a", ".", "c", "s", "v">>>>)
    /\ is_dir(OrRoot(op.path) \o <<<<"a">>>>)
    /\ ~Raised(ret) /\ ret.value.node = "Table"

\* C7: database(name, path) with a name that is not in the database listing
\* at path raises AttributeError and returns no node; a node is returned only
\* for names in list_databases(path).
C7_UnlistedNameNotFound ==
    (op.name = "database" /\ op.db # NoneV) =>
        LET p == OrRoot(op.path)
            listed == is_dir(p) /\ IsDatabaseAt(op.db, p)
        IN  /\ ~listed => ret = Raise("AttributeError", op.db)
            /\ ~Raised(ret) => (listed /\ ret.value.node = "FileDatabase"
                                /\ ret.value.name = op.db)
            /\ listed => ~Raised(ret)

C7_Witness ==
    /\ op.name = "database" /\ op.db = <<"b">> /\ policy = "dirs"
    /\ is_file(OrRoot(op.path) \o <<<<"b", ".", "c", "s", "v">>>>)
    /\ ret = Raise("AttributeError", <<"b">>)

\* C8: database() with no name returns the root node unconditionally: no
\* listing, no filesystem look-up, no failure, whatever the tree holds.
C8_NoNameReturnsRoot ==
    (op.name = "database" /\ op.db = NoneV) =>
        /\ ret = Return(FileDatabase(<<"r", "o", "o", "t">>, op.path))
        /\ calls = <<>>

C8_Witness ==
    /\ op.name = "database" /\ op.db = NoneV /\ op.path = NoPath
    /\ fs.files # {}
    /\ ret = Return(FileDatabase(<<"r", "o", "o", "t">>, NoPath))

-----------------------------------------------------------------------------
(* Qualifier specification: _fully_qualified_name applied to names and      *)
(* databases, applied again to its own output, and its output parsed by a   *)
(* handle's _match_name                                                     *)

MaxNameLen == 3

\* The characters of the names: a letter, the dot, the backquote and the
\* line break
NameChars == {"t", ".", BQ, NL}

RECURSIVE SeqsUpTo(_, _)
SeqsUpTo(S, n) ==
    IF n = 0 THEN {<<>>}
    ELSE LET shorter == SeqsUpTo(S, n - 1)
         IN  shorter \cup {Append(q, x) : q \in {r \in shorter : Len(r) = n - 1}, x \in S}

QualifyNames == SeqsUpTo(NameChars, MaxNameLen)

\* Databases given to the qualifier: none, the empty string, and names with
\* and without a dot, a backquote and a line break
QualifyDatabases ==
    { NoneV, <<>>, <<"d">>, <<"d", ".", "e">>, <<"d", BQ>>, <<"d", NL>> }

InitQualify ==
    /\ h = NoHandle
    /\ old = NoHandle
    /\ was = NoneV
    /\ cat = NoCatalog
    /\ fs = NoFiles
    /\ policy = "none"
    /\ op = Idle
    /\ calls = <<>>
    /\ ret = NoResult

\* client._fully_qualified_name(name, database)
Qualify(name, database) ==
    /\ op' = [name |-> "_fully_qualified_name", table |-> name, database |-> database]
    /\ ret' = Return(_fully_qualified_name(name, database))
    /\ h' = NoHandle
    /\ UNCHANGED <<old, was, cat, fs, policy, calls>>

\* client._fully_qualified_name(qualified, database) on the qualifier's output
Requalify ==
    /\ op.name = "_fully_qualified_name"
    /\ op' = [name |-> "requalify", table |-> op.table, database |-> op.database,
              first |-> ret.value]
    /\ ret' = Return(_fully_qualified_name(ret.value, op.database))
    /\ UNCHANGED <<h, old, was, cat, fs, policy, calls>>

\* A handle is built on the qualifier's output and parses it: _match_name()
MatchName(schema) ==
    /\ op.name = "_fully_qualified_name"
    /\ h' = Handle(table_expr_class, ret.value, schema)
    /\ op' = [name |-> "_match_name", table |-> op.table, database |-> op.database]
    /\ ret' = Return(_match_name(ret.value))
    /\ UNCHANGED <<old, was, cat, fs, policy, calls>>

NextQualify ==
    \/ \E name \in QualifyNames, database \in QualifyDatabases : Qualify(name, database)
    \/ Requalify
    \/ \E schema \in {<<Col(A, "int64")>>} : MatchName(schema)

SpecQualify == InitQualify /\ [][NextQualify]_vars

-----------------------------------------------------------------------------
(* Claims about the qualifier *)

\* The qualifier returns a qualified name unchanged and is idempotent
QualifierIdempotent ==
    /\ (op.name = "_fully_qualified_name" /\ is_fully_qualified(op.table))
          => ret = Return(op.table)
    /\ op.name = "requalify" => ret = Return(op.first)

\* The handle built on the qualifier's output has one database and one table
ParsedAs(database, unqualified) ==
    /\ ret = Return(<<database, unqualified>>)
    /\ _database(h) = database
    /\ _unqualified_name(h) = unqualified

\* C11 as stated: the qualifier is idempotent, and for any unqualified name n
\* and non-empty database d the handle's _match_name parses the qualifier's
\* output as exactly (d, n).
C11_QualifierRoundTrips ==
    /\ QualifierIdempotent
    /\ (op.name = "_match_name" /\ ~is_fully_qualified(op.table) /\ Truthy(op.database))
          => ParsedAs(op.database, op.table)

\* C11 (amended): the qualifier is idempotent (a qualified name is returned
\* unchanged), and for any non-empty unqualified name n and non-empty
\* database d, neither containing a line break, _match_name parses the
\* qualifier's output as exactly (d, n); for the empty name the parsed table
\* name is None, and with a line break in d the output is not parsed as a
\* qualified name at all.
C11_RoundTripOfNonEmptyNames ==
    /\ QualifierIdempotent
    /\ (op.name = "_match_name" /\ ~is_fully_qualified(op.table) /\ Truthy(op.database))
          => /\ (op.table # <<>> /\ NL \notin Range(op.table) /\ NL \notin Range(op.database))
                   => ParsedAs(op.database, op.table)
             /\ (op.table = <<>> /\ NL \notin Range(op.database))
                   => ParsedAs(op.database, NoneV)
             /\ NL \in Range(op.database) => ret.value[1] # op.database

\* A name with a backquote in it makes the round trip through a database
\* with a dot in it
C11_Witness ==
    /\ op.name = "_match_name"
    /\ op.table = <<"t", BQ>> /\ op.database = <<"d", ".", "e">>
    /\ h.qname = <<"d", ".", "e", ".", BQ, "t", BQ, BQ>>
    /\ ParsedAs(<<"d", ".", "e">>, <<"t", BQ>>)

-----------------------------------------------------------------------------
(* PySparkClient.compile and PySparkClient.execute *)

\* The classes of the values given to execute, each with the shapes it is an
\* instance of: expression classes of the three result shapes with a
\* subclass each, an expression of no such shape, and a value that is no
\* expression
ExprClasses ==
    [TableExpr       |-> {"TableExpr"},
     PySparkTable    |-> {"TableExpr"},
     ColumnExpr      |-> {"ColumnExpr"},
     IntegerColumn   |-> {"ColumnExpr"},
     ScalarExpr      |-> {"ScalarExpr"},
     IntegerScalar   |-> {"ScalarExpr"},
     ExprList        |-> {},
     int             |-> {}]

isinstance(expr, shape) == shape \in ExprClasses[expr.cls]

Expr(cls, node) == [cls |-> cls, node |-> node]

\* expr.name('tmp') and expr.to_projection(): a named column and the
\* single-column table expression that selects it
Named(expr, alias) == [cls |-> expr.cls, node |-> expr.node, alias |-> alias]

to_projection(expr) == [cls |-> "TableExpr", node |-> "projection", of |-> expr]

\* Scope(...) of compile: empty without params, else the params with the
\* time context
Scope(params, timecontext) ==
    IF params = NoneV THEN [params |-> NoneV, timecontext |-> NoneV]
    ELSE [params |-> params, timecontext |-> timecontext]

\* PySparkClient.compile(expr, timecontext, params); translated is what the
\* translator makes of expr: a native "DataFrame", a native "Column", or
\* "raise" when it cannot translate
compile(expr, timecontext, params, translated) ==
    LET localized == IF timecontext # NoneV
                     THEN <<[call |-> "conf.get", key |-> "spark.sql.session.timeZone"]>>
                     ELSE <<>>
        issued == localized \o <<[call |-> "translate", expr |-> expr,
                                  scope |-> Scope(params, timecontext)]>>
    IN  IF translated = "raise"
        THEN [calls |-> issued, ret |-> Raise("OperationNotDefinedError", <<"translate">>)]
        ELSE [calls |-> issued, ret |-> Return([native |-> translated, of |-> expr])]

\* compiled.toPandas()
toPandas(compiled) == [pandas |-> "DataFrame", of |-> compiled]

\* self._session.range(0, 1).select(compiled): the one-row probe query
Probe(compiled) == [native |-> "DataFrame", of |-> compiled.of, probe |-> TRUE]

UnsupportedKind(expr) ==
    Raise("IbisError", <<"Cannot execute expression of type: ", expr.cls>>)

\* PySparkClient.execute compiling before it looks at the shape of expr: the
\* mutant of a plausible bug.
execute_compile_first(expr, timecontext, params, translated) ==
    LET c == compile(expr, timecontext, params, translated)
    IN  IF Raised(c.ret) THEN c
        ELSE IF isinstance(expr, "TableExpr")
        THEN [calls |-> c.calls \o <<[call |-> "toPandas"]>>,
              ret   |-> Return(toPandas(c.ret.value))]
        ELSE IF isinstance(expr, "ColumnExpr")
        THEN [calls |-> c.calls \o <<[call |-> "toPandas"],
                                     [call |-> "getitem", key |-> "tmp"]>>,
              ret   |-> Return([column |-> "tmp", of |-> toPandas(c.ret.value)])]
        ELSE IF isinstance(expr, "ScalarExpr")
        THEN [calls |-> c.calls \o <<[call |-> "toPandas"], [call |-> "iloc", at |-> <<0, 0>>]>>,
              ret   |-> Return([cell |-> <<0, 0>>, of |-> toPandas(c.ret.value)])]
        ELSE [calls |-> c.calls, ret |-> UnsupportedKind(expr)]

\* PySparkClient.execute(expr, timecontext, params)
execute(expr, timecontext, params, translated) ==
    IF isinstance(expr, "TableExpr")
    THEN LET c == compile(expr, timecontext, params, translated)
         IN  IF Raised(c.ret) THEN c
             ELSE [calls |-> c.calls \o <<[call |-> "toPandas"]>>,
                   ret   |-> Return(toPandas(c.ret.value))]
    ELSE IF isinstance(expr, "ColumnExpr")
    THEN LET named == Named(expr, "tmp")
             c == compile(to_projection(named), timecontext, params, translated)
             before == <<[call |-> "name", alias |-> "tmp"], [call |-> "to_projection"]>>
         IN  IF Raised(c.ret) THEN [calls |-> before \o c.calls, ret |-> c.ret]
             ELSE [calls |-> before \o c.calls \o
                             <<[call |-> "toPandas"], [call |-> "getitem", key |-> "tmp"]>>,
                   ret   |-> Return([column |-> "tmp", of |-> toPandas(c.ret.value)])]
    ELSE IF isinstance(expr, "ScalarExpr")
    THEN LET c == compile(expr, timecontext, params, translated)
         IN  IF Raised(c.ret) THEN c
             ELSE LET isColumn == c.ret.value.native = "Column"
                      compiled == IF isColumn THEN Probe(c.ret.value) ELSE c.ret.value
                      probe == IF isColumn
                               THEN <<[call |-> "range", from |-> 0, to |-> 1],
                                      [call |-> "select"]>>
                               ELSE <<>>
                  IN  [calls |-> c.calls \o probe \o
                                  <<[call |-> "toPandas"], [call |-> "iloc", at |-> <<0, 0>>]>>,
                       ret   |-> Return([cell |-> <<0, 0>>, of |-> toPandas(compiled)])]
    ELSE [calls |-> <<>>, ret |-> UnsupportedKind(expr)]

-----------------------------------------------------------------------------
(* Execute specification: PySparkClient.execute on expressions of every     *)
(* shape                                                                    *)

Exprs == {Expr(cls, node) : cls \in DOMAIN ExprClasses, node \in {"x", "y"}}

TimeContexts == {NoneV, <<"begin", "end">>}

Params == {NoneV, <<"p">>}

\* What the translator can make of expr: a table expression or a projection
\* translates to a DataFrame, a scalar to a Column or to a DataFrame
Translations(expr) ==
    IF isinstance(expr, "TableExpr") \/ isinstance(expr, "ColumnExpr")
    THEN {"DataFrame", "raise"}
    ELSE {"Column", "DataFrame", "raise"}

InitExecute ==
    /\ h = NoHandle
    /\ old = NoHandle
    /\ was = NoneV
    /\ cat = NoCatalog
    /\ fs = NoFiles
    /\ policy = "none"
    /\ op = Idle
    /\ calls = <<>>
    /\ ret = NoResult

\* con.execute(expr, timecontext, params)
Execute(expr, timecontext, params, translated) ==
    LET r == execute(expr, timecontext, params, translated)
    IN  /\ op' = [name |-> "execute", expr |-> expr, timecontext |-> timecontext,
                  params |-> params, translated |-> translated]
        /\ calls' = r.calls
        /\ ret' = r.ret
        /\ UNCHANGED <<h, old, was, cat, fs, policy>>

NextExecute ==
    \E expr \in Exprs, timecontext \in TimeContexts, params \in Params :
        \E translated \in Translations(expr) :
            Execute(expr, timecontext, params, translated)

SpecExecute == InitExecute /\ [][NextExecute]_vars

-----------------------------------------------------------------------------
(* Claims about execute *)

\* The calls made, by name, the read of the session time zone left out
CallNames ==
    LET made == SelectSeq(calls, LAMBDA c : c.call # "conf.get")
    IN  [i \in 1..Len(made) |-> made[i].call]

\* The expressions given to the translator
TranslatedExprs ==
    LET made == SelectSeq(calls, LAMBDA c : c.call = "translate")
    IN  [i \in 1..Len(made) |-> made[i].expr]

\* C12: execute dispatches on the shape of the expression: a table
\* expression is compiled and materialized; a column expression is named,
\* compiled as a single-column projection, and that column is extracted; a
\* scalar expression is compiled and, when the compiled value is a bare
\* column, wrapped in a one-row probe query before the single cell is
\* extracted; any other shape fails with an unsupported-expression-kind
\* error without compiling or running anything.
C12_ExecuteDispatches ==
    op.name = "execute" =>
        LET e == op.expr
            failed == op.translated = "raise"
        IN  /\ isinstance(e, "TableExpr") =>
                  /\ TranslatedExprs = <<e>>
                  /\ ~failed => /\ CallNames = <<"translate", "toPandas">>
                                /\ ret = Return(toPandas([native |-> "DataFrame", of |-> e]))
            /\ isinstance(e, "ColumnExpr") =>
                  /\ Len(TranslatedExprs) = 1
                  /\ TranslatedExprs[1].node = "projection"
                  /\ TranslatedExprs[1].of = [cls |-> e.cls, node |-> e.node, alias |-> "tmp"]
                  /\ ~failed => /\ CallNames = <<"name", "to_projection", "translate",
                                                 "toPandas", "getitem">>
                                /\ ~Raised(ret) /\ ret.value.column = "tmp"
                                /\ ret.value.of.of.of = TranslatedExprs[1]
            /\ isinstance(e, "ScalarExpr") =>
                  /\ TranslatedExprs = <<e>>
                  /\ op.translated = "Column" =>
                        /\ CallNames = <<"translate", "range", "select", "toPandas", "iloc">>
                        /\ ret = Return([cell |-> <<0, 0>>,
                                         of |-> toPandas([native |-> "DataFrame", of |-> e,
                                                          probe |-> TRUE])])
                  /\ op.translated = "DataFrame" =>
                        /\ CallNames = <<"translate", "toPandas", "iloc">>
                        /\ ret = Return([cell |-> <<0, 0>>,
                                         of |-> toPandas([native |-> "DataFrame", of |-> e])])
            /\ (ExprClasses[e.cls] # {} /\ failed) =>
                  /\ Raised(ret) /\ ret.exc # "IbisError"
                  /\ CallNames[Len(CallNames)] = "translate"
            /\ ExprClasses[e.cls] = {} =>
                  /\ calls = <<>>
                  /\ Raised(ret) /\ ret.exc = "IbisError"

\* An expression of no supported shape is refused with nothing compiled
C12_Witness ==
    /\ op.name = "execute" /\ op.expr = Expr("ExprList", "x")
    /\ op.params # NoneV /\ op.timecontext # NoneV
    /\ calls = <<>>
    /\ ret = UnsupportedKind(Expr("ExprList", "x"))

\* A scalar compiled to a bare column goes through the one-row probe
C12_ProbeWitness ==
    /\ op.name = "execute" /\ op.expr = Expr("IntegerScalar", "x")
    /\ op.translated = "Column"
    /\ "select" \in Range(CallNames)

-----------------------------------------------------------------------------
(* Claims about PySparkClient.table, under the catalog specification *)

\* The catalog's answer to the look-up that table(name, database) makes
Looked == getTable(_fully_qualified_name(op.table, op.database))

\* C13: table(name, database) fails with an input error whose cause is the
\* native catalog exception whenever the name/database pair does not exist,
\* and then builds no handle and infers no schema; on success the handle's
\* qualified name is built from the database and table name the catalog
\* entry reports, not from the caller's arguments.
C13_TableNamedByCatalog ==
    op.name = "table" =>
        /\ Raised(Looked) =>
              /\ Raised(ret) /\ ret.exc = "IbisInputError"
              /\ ret.cause = Looked /\ ret.cause.exc = "AnalysisException"
              /\ \A i \in 1..Len(calls) : calls[i].call = "getTable"
        /\ ~Raised(Looked) =>
              /\ ~Raised(ret)
              /\ ret.value.qname =
                    _fully_qualified_name(Looked.value.name, Looked.value.database)
              /\ calls[Len(calls)] = session_table(ret.value.qname)
        /\ (op.table \in TableNames /\ op.database \in DbNames) =>
              IF CatalogHas(op.table, op.database)
              THEN /\ ~Raised(ret)
                   /\ _match_name(ret.value.qname) = <<op.database, op.table>>
              ELSE Raised(ret)
        /\ (op.table \in TableNames /\ op.database = NoneV
              /\ ~CatalogHas(op.table, NoneV) /\ CatalogHas(op.table, cat.current)) =>
              /\ ~Raised(ret)
              /\ _match_name(ret.value.qname) = <<cat.current, op.table>>

\* A table looked up without a database is named with the database the
\* catalog reports
C13_Witness ==
    /\ op.name = "table" /\ op.table = <<"t">> /\ op.database = NoneV
    /\ cat.current = <<"d", "b">>
    /\ ~Raised(ret)
    /\ ret.value.qname = <<"d", "b", ".", BQ, "t", BQ>>
    /\ _fully_qualified_name(op.table, op.database) = <<"t">>

\* A name that is not in the catalog: an input error and no handle
C13_FailWitness ==
    /\ op.name = "table" /\ op.table = <<"t", "u">> /\ op.database = <<"d">>
    /\ Raised(ret) /\ ret.exc = "IbisInputError"
    /\ Len(calls) = 1

-----------------------------------------------------------------------------
(* Claims about the path of the node FileClient.database returns, under the *)
(* file specification                                                       *)

\* The path the node of database name under directory p is to have: the
\* subdirectory p/name, else the file p/name.extension
NodePath(p, name) ==
    IF is_dir(p \o <<name>>) THEN p \o <<name>>
    ELSE p \o <<name \o <<".">> \o Extension>>

\* C14: database(name, path) for a name in the listing at path returns a node
\* whose path is path/name when name is a subdirectory of path and
\* path/name.extension when name is a file with the extension under path,
\* for every path at or below the root.
C14_NodePathUnderPath ==
    (op.name = "database" /\ op.db # NoneV /\ ~Raised(ret)) =>
        ret.value.path = NodePath(OrRoot(op.path), op.db)

\* The part of C14 the code keeps: the node's path when path is the root
\* (or none is given)
C14_NodePathUnderRoot ==
    (op.name = "database" /\ op.db # NoneV /\ ~Raised(ret) /\ OrRoot(op.path) = Root) =>
        ret.value.path = NodePath(Root, op.db)

-----------------------------------------------------------------------------
(* Claims about the insert of a pandas DataFrame through a handle, under    *)
(* the handle specification                                                 *)

DataFrameInsert == op.name = "insert" /\ op.obj.kind = "DataFrame"

\* C15: insert given a pandas DataFrame takes a fast path: it loads the data
\* into the engine under the handle's table name, honouring overwrite, and
\* returns without validating the schema (even with validate = TRUE),
\* without compiling an expression and without submitting a statement
\* through raw_sql.
C15_DataFrameFastPath ==
    DataFrameInsert =>
        /\ calls = <<createDataFrame(op.obj), insertInto(op.self.qname, op.overwrite)>>
        /\ op.engine_ok => ret = Return(NoneV)
        /\ ~(Raised(ret) /\ ret.exc \in {"IbisInputError", "AttributeError",
                                         "NotImplementedError"})

\* The part of C15 the code keeps: a DataFrame insert validates nothing,
\* compiles nothing and submits no statement
C15_FastPathBypasses ==
    DataFrameInsert =>
        /\ \A i \in 1..Len(calls) : calls[i].call \notin {"to_ast", "sql"}
        /\ ~(Raised(ret) /\ ret.exc \in {"IbisInputError", "NotImplementedError"})
====
